---- MODULE Spec2Model ----
(***************************************************************************)
(* Model of src/make_feedback_tool_data/make_data_for_feedback_tool.py:    *)
(* create_dataset from the frame read from the survey csv to the export:   *)
(* preproccess_filter_comment_text, part-of-speech tagging,                *)
(* extract_phrase_mentions (the accumulation loop over the rows),          *)
(* create_phrase_level_columns and create_phrase_level_data (span          *)
(* resolution, filtering of absent spans, display column),                 *)
(* save_intermediate_df, and the renaming and column selection of the      *)
(* export.                                                                 *)
(*                                                                         *)
(* A Python str is the sequence of its code points (integers), so that     *)
(* lower(), re.sub, split/join, len and substring search are computed      *)
(* code point by code point.  A data frame is the sequence of its columns, *)
(* each a column label and a sequence of cells, one per row; two columns   *)
(* may carry the same label, as in pandas.                                 *)
(***************************************************************************)
EXTENDS Integers, Sequences, FiniteSets, TLC

VARIABLES
    pc,               \* position in create_dataset / create_phrase_level_data
    df,               \* the data frame survey_data_df
    phrase_mentions,  \* accumulator of extract_phrase_mentions (line 65)
    i,                \* number of values of df.pos_tag the for loop has taken
    sents,            \* parser output for the current row (line 71)
    combos,           \* output of compute_combinations for the current row
    k,                \* index of the next combo the inner loop will take
    todo,             \* pending calls of create_phrase_level_data
    csv               \* the frames written with to_csv, in order

vars == <<pc, df, phrase_mentions, i, sents, combos, k, todo, csv>>

(***************************************************************************)
(* Bounds                                                                  *)
(***************************************************************************)
MaxRows == 3          \* rows of the survey frame

(***************************************************************************)
(* Python values                                                           *)
(***************************************************************************)
\* A cell that may hold float('nan') instead of an object.
NaN == [float |-> TRUE, v |-> <<>>]
Obj(x) == [float |-> FALSE, v |-> x]
IsFloat(cell) == cell.float

\* None, as returned by find_needle for a span that is not found.  It is no
\* str: its only element is not a code point.
None == <<-1>>

\* The simple lower-case mappings of Unicode 14.0 (the table str.lower()
\* uses): runs <<first, last, step, delta>>; every code point first,
\* first + step, ... up to last maps to itself plus delta.
LowerRuns == <<
    <<65,90,1,32>>, <<192,214,1,32>>, <<216,222,1,32>>, <<256,302,2,1>>,
    <<306,310,2,1>>, <<313,327,2,1>>, <<330,374,2,1>>, <<376,376,1,-121>>,
    <<377,381,2,1>>, <<385,385,1,210>>, <<386,388,2,1>>, <<390,390,1,206>>,
    <<391,391,1,1>>, <<393,394,1,205>>, <<395,395,1,1>>, <<398,398,1,79>>,
    <<399,399,1,202>>, <<400,400,1,203>>, <<401,401,1,1>>,
    <<403,403,1,205>>, <<404,404,1,207>>, <<406,406,1,211>>,
    <<407,407,1,209>>, <<408,408,1,1>>, <<412,412,1,211>>,
    <<413,413,1,213>>, <<415,415,1,214>>, <<416,420,2,1>>,
    <<422,422,1,218>>, <<423,423,1,1>>, <<425,425,1,218>>, <<428,428,1,1>>,
    <<430,430,1,218>>, <<431,431,1,1>>, <<433,434,1,217>>, <<435,437,2,1>>,
    <<439,439,1,219>>, <<440,440,1,1>>, <<444,444,1,1>>, <<452,452,1,2>>,
    <<453,453,1,1>>, <<455,455,1,2>>, <<456,456,1,1>>, <<458,458,1,2>>,
    <<459,475,2,1>>, <<478,494,2,1>>, <<497,497,1,2>>, <<498,500,2,1>>,
    <<502,502,1,-97>>, <<503,503,1,-56>>, <<504,542,2,1>>,
    <<544,544,1,-130>>, <<546,562,2,1>>, <<570,570,1,10795>>,
    <<571,571,1,1>>, <<573,573,1,-163>>, <<574,574,1,10792>>,
    <<577,577,1,1>>, <<579,579,1,-195>>, <<580,580,1,69>>,
    <<581,581,1,71>>, <<582,590,2,1>>, <<880,882,2,1>>, <<886,886,1,1>>,
    <<895,895,1,116>>, <<902,902,1,38>>, <<904,906,1,37>>,
    <<908,908,1,64>>, <<910,911,1,63>>, <<913,929,1,32>>, <<931,939,1,32>>,
    <<975,975,1,8>>, <<984,1006,2,1>>, <<1012,1012,1,-60>>,
    <<1015,1015,1,1>>, <<1017,1017,1,-7>>, <<1018,1018,1,1>>,
    <<1021,1023,1,-130>>, <<1024,1039,1,80>>, <<1040,1071,1,32>>,
    <<1120,1152,2,1>>, <<1162,1214,2,1>>, <<1216,1216,1,15>>,
    <<1217,1229,2,1>>, <<1232,1326,2,1>>, <<1329,1366,1,48>>,
    <<4256,4293,1,7264>>, <<4295,4295,1,7264>>, <<4301,4301,1,7264>>,
    <<5024,5103,1,38864>>, <<5104,5109,1,8>>, <<7312,7354,1,-3008>>,
    <<7357,7359,1,-3008>>, <<7680,7828,2,1>>, <<7838,7838,1,-7615>>,
    <<7840,7934,2,1>>, <<7944,7951,1,-8>>, <<7960,7965,1,-8>>,
    <<7976,7983,1,-8>>, <<7992,7999,1,-8>>, <<8008,8013,1,-8>>,
    <<8025,8031,2,-8>>, <<8040,8047,1,-8>>, <<8072,8079,1,-8>>,
    <<8088,8095,1,-8>>, <<8104,8111,1,-8>>, <<8120,8121,1,-8>>,
    <<8122,8123,1,-74>>, <<8124,8124,1,-9>>, <<8136,8139,1,-86>>,
    <<8140,8140,1,-9>>, <<8152,8153,1,-8>>, <<8154,8155,1,-100>>,
    <<8168,8169,1,-8>>, <<8170,8171,1,-112>>, <<8172,8172,1,-7>>,
    <<8184,8185,1,-128>>, <<8186,8187,1,-126>>, <<8188,8188,1,-9>>,
    <<8486,8486,1,-7517>>, <<8490,8490,1,-8383>>, <<8491,8491,1,-8262>>,
    <<8498,8498,1,28>>, <<8544,8559,1,16>>, <<8579,8579,1,1>>,
    <<9398,9423,1,26>>, <<11264,11311,1,48>>, <<11360,11360,1,1>>,
    <<11362,11362,1,-10743>>, <<11363,11363,1,-3814>>,
    <<11364,11364,1,-10727>>, <<11367,11371,2,1>>,
    <<11373,11373,1,-10780>>, <<11374,11374,1,-10749>>,
    <<11375,11375,1,-10783>>, <<11376,11376,1,-10782>>,
    <<11378,11378,1,1>>, <<11381,11381,1,1>>, <<11390,11391,1,-10815>>,
    <<11392,11490,2,1>>, <<11499,11501,2,1>>, <<11506,11506,1,1>>,
    <<42560,42604,2,1>>, <<42624,42650,2,1>>, <<42786,42798,2,1>>,
    <<42802,42862,2,1>>, <<42873,42875,2,1>>, <<42877,42877,1,-35332>>,
    <<42878,42886,2,1>>, <<42891,42891,1,1>>, <<42893,42893,1,-42280>>,
    <<42896,42898,2,1>>, <<42902,42920,2,1>>, <<42922,42922,1,-42308>>,
    <<42923,42923,1,-42319>>, <<42924,42924,1,-42315>>,
    <<42925,42925,1,-42305>>, <<42926,42926,1,-42308>>,
    <<42928,42928,1,-42258>>, <<42929,42929,1,-42282>>,
    <<42930,42930,1,-42261>>, <<42931,42931,1,928>>, <<42932,42946,2,1>>,
    <<42948,42948,1,-48>>, <<42949,42949,1,-42307>>,
    <<42950,42950,1,-35384>>, <<42951,42953,2,1>>, <<42960,42960,1,1>>,
    <<42966,42968,2,1>>, <<42997,42997,1,1>>, <<65313,65338,1,32>>,
    <<66560,66599,1,40>>, <<66736,66771,1,40>>, <<66928,66964,2,39>>,
    <<66929,66929,1,39>>, <<66931,66931,1,39>>, <<66933,66933,1,39>>,
    <<66935,66935,1,39>>, <<66937,66937,1,39>>, <<66941,66941,1,39>>,
    <<66943,66943,1,39>>, <<66945,66945,1,39>>, <<66947,66947,1,39>>,
    <<66949,66949,1,39>>, <<66951,66951,1,39>>, <<66953,66953,1,39>>,
    <<66957,66957,1,39>>, <<66959,66959,1,39>>, <<66961,66961,1,39>>,
    <<66965,66965,1,39>>, <<68736,68786,1,64>>, <<71840,71871,1,32>>,
    <<93760,93791,1,32>>, <<125184,125217,1,34>>
>>

\* The case-ignorable code points, as ranges <<first, last>>.
CaseIgnorable == <<
    <<39,39>>, <<46,46>>, <<58,58>>, <<94,94>>, <<96,96>>, <<168,168>>,
    <<173,173>>, <<175,175>>, <<180,180>>, <<183,184>>, <<688,879>>,
    <<884,885>>, <<890,890>>, <<900,901>>, <<903,903>>, <<1155,1161>>,
    <<1369,1369>>, <<1375,1375>>, <<1425,1469>>, <<1471,1471>>,
    <<1473,1474>>, <<1476,1477>>, <<1479,1479>>, <<1524,1524>>,
    <<1536,1541>>, <<1552,1562>>, <<1564,1564>>, <<1600,1600>>,
    <<1611,1631>>, <<1648,1648>>, <<1750,1757>>, <<1759,1768>>,
    <<1770,1773>>, <<1807,1807>>, <<1809,1809>>, <<1840,1866>>,
    <<1958,1968>>, <<2027,2037>>, <<2042,2042>>, <<2045,2045>>,
    <<2070,2093>>, <<2137,2139>>, <<2184,2184>>, <<2192,2193>>,
    <<2200,2207>>, <<2249,2306>>, <<2362,2362>>, <<2364,2364>>,
    <<2369,2376>>, <<2381,2381>>, <<2385,2391>>, <<2402,2403>>,
    <<2417,2417>>, <<2433,2433>>, <<2492,2492>>, <<2497,2500>>,
    <<2509,2509>>, <<2530,2531>>, <<2558,2558>>, <<2561,2562>>,
    <<2620,2620>>, <<2625,2626>>, <<2631,2632>>, <<2635,2637>>,
    <<2641,2641>>, <<2672,2673>>, <<2677,2677>>, <<2689,2690>>,
    <<2748,2748>>, <<2753,2757>>, <<2759,2760>>, <<2765,2765>>,
    <<2786,2787>>, <<2810,2815>>, <<2817,2817>>, <<2876,2876>>,
    <<2879,2879>>, <<2881,2884>>, <<2893,2893>>, <<2901,2902>>,
    <<2914,2915>>, <<2946,2946>>, <<3008,3008>>, <<3021,3021>>,
    <<3072,3072>>, <<3076,3076>>, <<3132,3132>>, <<3134,3136>>,
    <<3142,3144>>, <<3146,3149>>, <<3157,3158>>, <<3170,3171>>,
    <<3201,3201>>, <<3260,3260>>, <<3263,3263>>, <<3270,3270>>,
    <<3276,3277>>, <<3298,3299>>, <<3328,3329>>, <<3387,3388>>,
    <<3393,3396>>, <<3405,3405>>, <<3426,3427>>, <<3457,3457>>,
    <<3530,3530>>, <<3538,3540>>, <<3542,3542>>, <<3633,3633>>,
    <<3636,3642>>, <<3654,3662>>, <<3761,3761>>, <<3764,3772>>,
    <<3782,3782>>, <<3784,3789>>, <<3864,3865>>, <<3893,3893>>,
    <<3895,3895>>, <<3897,3897>>, <<3953,3966>>, <<3968,3972>>,
    <<3974,3975>>, <<3981,3991>>, <<3993,4028>>, <<4038,4038>>,
    <<4141,4144>>, <<4146,4151>>, <<4153,4154>>, <<4157,4158>>,
    <<4184,4185>>, <<4190,4192>>, <<4209,4212>>, <<4226,4226>>,
    <<4229,4230>>, <<4237,4237>>, <<4253,4253>>, <<4348,4348>>,
    <<4957,4959>>, <<5906,5908>>, <<5938,5939>>, <<5970,5971>>,
    <<6002,6003>>, <<6068,6069>>, <<6071,6077>>, <<6086,6086>>,
    <<6089,6099>>, <<6103,6103>>, <<6109,6109>>, <<6155,6159>>,
    <<6211,6211>>, <<6277,6278>>, <<6313,6313>>, <<6432,6434>>,
    <<6439,6440>>, <<6450,6450>>, <<6457,6459>>, <<6679,6680>>,
    <<6683,6683>>, <<6742,6742>>, <<6744,6750>>, <<6752,6752>>,
    <<6754,6754>>, <<6757,6764>>, <<6771,6780>>, <<6783,6783>>,
    <<6823,6823>>, <<6832,6862>>, <<6912,6915>>, <<6964,6964>>,
    <<6966,6970>>, <<6972,6972>>, <<6978,6978>>, <<7019,7027>>,
    <<7040,7041>>, <<7074,7077>>, <<7080,7081>>, <<7083,7085>>,
    <<7142,7142>>, <<7144,7145>>, <<7149,7149>>, <<7151,7153>>,
    <<7212,7219>>, <<7222,7223>>, <<7288,7293>>, <<7376,7378>>,
    <<7380,7392>>, <<7394,7400>>, <<7405,7405>>, <<7412,7412>>,
    <<7416,7417>>, <<7468,7530>>, <<7544,7544>>, <<7579,7679>>,
    <<8125,8125>>, <<8127,8129>>, <<8141,8143>>, <<8157,8159>>,
    <<8173,8175>>, <<8189,8190>>, <<8203,8207>>, <<8216,8217>>,
    <<8228,8228>>, <<8231,8231>>, <<8234,8238>>, <<8288,8292>>,
    <<8294,8303>>, <<8305,8305>>, <<8319,8319>>, <<8336,8348>>,
    <<8400,8432>>, <<11388,11389>>, <<11503,11505>>, <<11631,11631>>,
    <<11647,11647>>, <<11744,11775>>, <<11823,11823>>, <<12293,12293>>,
    <<12330,12333>>, <<12337,12341>>, <<12347,12347>>, <<12441,12446>>,
    <<12540,12542>>, <<40981,40981>>, <<42232,42237>>, <<42508,42508>>,
    <<42607,42610>>, <<42612,42621>>, <<42623,42623>>, <<42652,42655>>,
    <<42736,42737>>, <<42752,42785>>, <<42864,42864>>, <<42888,42890>>,
    <<42994,42996>>, <<43000,43001>>, <<43010,43010>>, <<43014,43014>>,
    <<43019,43019>>, <<43045,43046>>, <<43052,43052>>, <<43204,43205>>,
    <<43232,43249>>, <<43263,43263>>, <<43302,43309>>, <<43335,43345>>,
    <<43392,43394>>, <<43443,43443>>, <<43446,43449>>, <<43452,43453>>,
    <<43471,43471>>, <<43493,43494>>, <<43561,43566>>, <<43569,43570>>,
    <<43573,43574>>, <<43587,43587>>, <<43596,43596>>, <<43632,43632>>,
    <<43644,43644>>, <<43696,43696>>, <<43698,43700>>, <<43703,43704>>,
    <<43710,43711>>, <<43713,43713>>, <<43741,43741>>, <<43756,43757>>,
    <<43763,43764>>, <<43766,43766>>, <<43867,43871>>, <<43881,43883>>,
    <<44005,44005>>, <<44008,44008>>, <<44013,44013>>, <<64286,64286>>,
    <<64434,64450>>, <<65024,65039>>, <<65043,65043>>, <<65056,65071>>,
    <<65106,65106>>, <<65109,65109>>, <<65279,65279>>, <<65287,65287>>,
    <<65294,65294>>, <<65306,65306>>, <<65342,65342>>, <<65344,65344>>,
    <<65392,65392>>, <<65438,65439>>, <<65507,65507>>, <<65529,65531>>,
    <<66045,66045>>, <<66272,66272>>, <<66422,66426>>, <<67456,67461>>,
    <<67463,67504>>, <<67506,67514>>, <<68097,68099>>, <<68101,68102>>,
    <<68108,68111>>, <<68152,68154>>, <<68159,68159>>, <<68325,68326>>,
    <<68900,68903>>, <<69291,69292>>, <<69446,69456>>, <<69506,69509>>,
    <<69633,69633>>, <<69688,69702>>, <<69744,69744>>, <<69747,69748>>,
    <<69759,69761>>, <<69811,69814>>, <<69817,69818>>, <<69821,69821>>,
    <<69826,69826>>, <<69837,69837>>, <<69888,69890>>, <<69927,69931>>,
    <<69933,69940>>, <<70003,70003>>, <<70016,70017>>, <<70070,70078>>,
    <<70089,70092>>, <<70095,70095>>, <<70191,70193>>, <<70196,70196>>,
    <<70198,70199>>, <<70206,70206>>, <<70367,70367>>, <<70371,70378>>,
    <<70400,70401>>, <<70459,70460>>, <<70464,70464>>, <<70502,70508>>,
    <<70512,70516>>, <<70712,70719>>, <<70722,70724>>, <<70726,70726>>,
    <<70750,70750>>, <<70835,70840>>, <<70842,70842>>, <<70847,70848>>,
    <<70850,70851>>, <<71090,71093>>, <<71100,71101>>, <<71103,71104>>,
    <<71132,71133>>, <<71219,71226>>, <<71229,71229>>, <<71231,71232>>,
    <<71339,71339>>, <<71341,71341>>, <<71344,71349>>, <<71351,71351>>,
    <<71453,71455>>, <<71458,71461>>, <<71463,71467>>, <<71727,71735>>,
    <<71737,71738>>, <<71995,71996>>, <<71998,71998>>, <<72003,72003>>,
    <<72148,72151>>, <<72154,72155>>, <<72160,72160>>, <<72193,72202>>,
    <<72243,72248>>, <<72251,72254>>, <<72263,72263>>, <<72273,72278>>,
    <<72281,72283>>, <<72330,72342>>, <<72344,72345>>, <<72752,72758>>,
    <<72760,72765>>, <<72767,72767>>, <<72850,72871>>, <<72874,72880>>,
    <<72882,72883>>, <<72885,72886>>, <<73009,73014>>, <<73018,73018>>,
    <<73020,73021>>, <<73023,73029>>, <<73031,73031>>, <<73104,73105>>,
    <<73109,73109>>, <<73111,73111>>, <<73459,73460>>, <<78896,78904>>,
    <<92912,92916>>, <<92976,92982>>, <<92992,92995>>, <<94031,94031>>,
    <<94095,94111>>, <<94176,94177>>, <<94179,94180>>, <<110576,110579>>,
    <<110581,110587>>, <<110589,110590>>, <<113821,113822>>,
    <<113824,113827>>, <<118528,118573>>, <<118576,118598>>,
    <<119143,119145>>, <<119155,119170>>, <<119173,119179>>,
    <<119210,119213>>, <<119362,119364>>, <<121344,121398>>,
    <<121403,121452>>, <<121461,121461>>, <<121476,121476>>,
    <<121499,121503>>, <<121505,121519>>, <<122880,122886>>,
    <<122888,122904>>, <<122907,122913>>, <<122915,122916>>,
    <<122918,122922>>, <<123184,123197>>, <<123566,123566>>,
    <<123628,123631>>, <<125136,125142>>, <<125252,125259>>,
    <<127995,127999>>, <<917505,917505>>, <<917536,917631>>,
    <<917760,917999>>
>>

\* The cased code points that are not case-ignorable, as ranges
\* <<first, last>>.
Cased == <<
    <<65,90>>, <<97,122>>, <<170,170>>, <<181,181>>, <<186,186>>,
    <<192,214>>, <<216,246>>, <<248,442>>, <<444,447>>, <<452,659>>,
    <<661,687>>, <<880,883>>, <<886,887>>, <<891,893>>, <<895,895>>,
    <<902,902>>, <<904,906>>, <<908,908>>, <<910,929>>, <<931,931>>,
    <<932,1013>>, <<1015,1153>>, <<1162,1327>>, <<1329,1366>>,
    <<1376,1416>>, <<4256,4293>>, <<4295,4295>>, <<4301,4301>>,
    <<4304,4346>>, <<4349,4351>>, <<5024,5109>>, <<5112,5117>>,
    <<7296,7304>>, <<7312,7354>>, <<7357,7359>>, <<7424,7467>>,
    <<7531,7543>>, <<7545,7578>>, <<7680,7957>>, <<7960,7965>>,
    <<7968,8005>>, <<8008,8013>>, <<8016,8023>>, <<8025,8025>>,
    <<8027,8027>>, <<8029,8029>>, <<8031,8061>>, <<8064,8116>>,
    <<8118,8124>>, <<8126,8126>>, <<8130,8132>>, <<8134,8140>>,
    <<8144,8147>>, <<8150,8155>>, <<8160,8172>>, <<8178,8180>>,
    <<8182,8188>>, <<8450,8450>>, <<8455,8455>>, <<8458,8467>>,
    <<8469,8469>>, <<8473,8477>>, <<8484,8484>>, <<8486,8486>>,
    <<8488,8488>>, <<8490,8493>>, <<8495,8500>>, <<8505,8505>>,
    <<8508,8511>>, <<8517,8521>>, <<8526,8526>>, <<8544,8575>>,
    <<8579,8580>>, <<9398,9449>>, <<11264,11387>>, <<11390,11492>>,
    <<11499,11502>>, <<11506,11507>>, <<11520,11557>>, <<11559,11559>>,
    <<11565,11565>>, <<42560,42605>>, <<42624,42651>>, <<42786,42863>>,
    <<42865,42887>>, <<42891,42894>>, <<42896,42954>>, <<42960,42961>>,
    <<42963,42963>>, <<42965,42969>>, <<42997,42998>>, <<43002,43002>>,
    <<43824,43866>>, <<43872,43880>>, <<43888,43967>>, <<64256,64262>>,
    <<64275,64279>>, <<65313,65338>>, <<65345,65370>>, <<66560,66639>>,
    <<66736,66771>>, <<66776,66811>>, <<66928,66938>>, <<66940,66954>>,
    <<66956,66962>>, <<66964,66965>>, <<66967,66977>>, <<66979,66993>>,
    <<66995,67001>>, <<67003,67004>>, <<68736,68786>>, <<68800,68850>>,
    <<71840,71903>>, <<93760,93823>>, <<119808,119892>>, <<119894,119964>>,
    <<119966,119967>>, <<119970,119970>>, <<119973,119974>>,
    <<119977,119980>>, <<119982,119993>>, <<119995,119995>>,
    <<119997,120003>>, <<120005,120069>>, <<120071,120074>>,
    <<120077,120084>>, <<120086,120092>>, <<120094,120121>>,
    <<120123,120126>>, <<120128,120132>>, <<120134,120134>>,
    <<120138,120144>>, <<120146,120485>>, <<120488,120512>>,
    <<120514,120538>>, <<120540,120570>>, <<120572,120596>>,
    <<120598,120628>>, <<120630,120654>>, <<120656,120686>>,
    <<120688,120712>>, <<120714,120744>>, <<120746,120770>>,
    <<120772,120779>>, <<122624,122633>>, <<122635,122654>>,
    <<125184,125251>>, <<127280,127305>>, <<127312,127337>>,
    <<127344,127369>>
>>

InRanges(c, ranges) ==
    \E n \in 1..Len(ranges) : ranges[n][1] <= c /\ c <= ranges[n][2]

InRun(c, run) == run[1] <= c /\ c <= run[2] /\ (c - run[1]) % run[3] = 0

\* The lower-case mapping of one code point that maps to one code point.
LowerChar(c) ==
    IF c < 128 THEN (IF 65 <= c /\ c <= 90 THEN c + 32 ELSE c)
    ELSE IF \E n \in 1..Len(LowerRuns) : InRun(c, LowerRuns[n])
         THEN c + LowerRuns[CHOOSE n \in 1..Len(LowerRuns) : InRun(c, LowerRuns[n])][4]
         ELSE c

\* The capital sigma at position n of s is final: going back over the
\* case-ignorable code points there is a cased one before it, and going forth
\* over the case-ignorable ones there is no cased one after it.
FinalSigma(s, n) ==
    LET before == {j \in 1..(n - 1) : ~InRanges(s[j], CaseIgnorable)}
        after == {j \in (n + 1)..Len(s) : ~InRanges(s[j], CaseIgnorable)}
        last == CHOOSE j \in before : \A q \in before : q <= j
        first == CHOOSE j \in after : \A q \in after : j <= q
    IN  /\ before # {}
        /\ InRanges(s[last], Cased)
        /\ (after = {} \/ ~InRanges(s[first], Cased))

\* What str.lower() puts for the code point at position n of s: capital
\* sigma (931) becomes final (962) or medial (963) small sigma, capital I
\* with dot above (304) becomes i and a combining dot above, every other
\* code point its simple mapping.
LowerAt(s, n) ==
    IF s[n] = 931 THEN <<IF FinalSigma(s, n) THEN 962 ELSE 963>>
    ELSE IF s[n] = 304 THEN <<105, 775>>
    ELSE <<LowerChar(s[n])>>

\* Concatenation of a sequence of sequences.
RECURSIVE Flatten(_)
Flatten(xss) == IF xss = <<>> THEN <<>> ELSE Head(xss) \o Flatten(Tail(xss))

\* str.lower()
Lower(s) ==
    IF \A n \in 1..Len(s) : s[n] # 931 /\ s[n] # 304
    THEN [n \in 1..Len(s) |-> LowerChar(s[n])]
    ELSE Flatten([n \in 1..Len(s) |-> LowerAt(s, n)])

\* The characters of the class [()\[\]+]: ( ) [ ] +
BracketChars == {40, 41, 91, 93, 43}

\* A buggy variant of the stripping: every matched character becomes a blank.
StripBracketsSpace(s) == [n \in 1..Len(s) |-> IF s[n] \in BracketChars THEN 32 ELSE s[n]]

\* re.sub(r"[()\[\]+]", "", s): every matched character is deleted.
StripBrackets(s) == SelectSeq(s, LAMBDA c : c \notin BracketChars)

\* The code points str.split() takes for white space (str.isspace()).
WhiteSpace == {9, 10, 11, 12, 13, 28, 29, 30, 31, 32, 133, 160, 5760, 8192, 8193, 8194, 8195, 8196, 8197, 8198, 8199, 8200, 8201, 8202, 8232, 8233, 8239, 8287, 12288}

\* Length of the longest prefix of s that holds no white space.
RECURSIVE WordLen(_)
WordLen(s) ==
    IF s = <<>> \/ Head(s) \in WhiteSpace THEN 0 ELSE 1 + WordLen(Tail(s))

\* str.split() with no argument: the maximal runs of non-white-space.
RECURSIVE Split(_)
Split(s) ==
    IF s = <<>> THEN <<>>
    ELSE IF Head(s) \in WhiteSpace THEN Split(Tail(s))
    ELSE LET n == WordLen(s)
         IN  <<SubSeq(s, 1, n)>> \o Split(SubSeq(s, n + 1, Len(s)))

\* sep.join(xs)
RECURSIVE Join(_, _)
Join(sep, xs) ==
    IF xs = <<>> THEN <<>>
    ELSE IF Len(xs) = 1 THEN xs[1]
    ELSE xs[1] \o sep \o Join(sep, Tail(xs))

(***************************************************************************)
(* pandas                                                                  *)
(***************************************************************************)
\* label in frame.columns
HasColumn(frame, label) == \E c \in 1..Len(frame) : frame[c].name = label

\* frame[label], for a label that a column carries: the cells of the (first)
\* column of that label.
Column(frame, label) ==
    frame[CHOOSE c \in 1..Len(frame) :
              /\ frame[c].name = label
              /\ \A b \in 1..(c - 1) : frame[b].name # label].cells

\* len(frame)
NRows(frame) == Len(frame[1].cells)

\* frame[label] = cells: the column of that label is replaced where it is, a
\* new label is appended as the last column.
SetColumn(frame, label, cells) ==
    IF HasColumn(frame, label)
    THEN [c \in 1..Len(frame) |->
             IF frame[c].name = label THEN [name |-> label, cells |-> cells]
             ELSE frame[c]]
    ELSE Append(frame, [name |-> label, cells |-> cells])

\* frame.iloc[rows]: the rows at the given positions, in the given order.
TakeRows(frame, rows) ==
    [c \in 1..Len(frame) |->
        [name |-> frame[c].name,
         cells |-> [n \in 1..Len(rows) |-> frame[c].cells[rows[n]]]]]

\* frame[mask]: the rows whose mask is True, in order.
SelectRows(frame, mask) ==
    TakeRows(frame, SelectSeq([r \in 1..Len(mask) |-> r], LAMBDA r : mask[r]))

\* frame.rename(columns={old: new}, inplace=True): every column labelled old
\* is relabelled, whether or not another column is labelled new already.
RenameColumn(frame, old, new) ==
    [c \in 1..Len(frame) |->
        [name |-> IF frame[c].name = old THEN new ELSE frame[c].name,
         cells |-> frame[c].cells]]

\* Every label of the list is a column of the frame.
HasColumns(frame, labels) ==
    \A n \in 1..Len(labels) : HasColumn(frame, labels[n])

\* frame[labels] for labels that are all columns of the frame.
SelectColumns(frame, labels) ==
    [n \in 1..Len(labels) |->
        [name |-> labels[n], cells |-> Column(frame, labels[n])]]

(***************************************************************************)
(* Column labels                                                           *)
(***************************************************************************)
str_Q3_x == <<81,51,95,120>>
str_Q3_pii_removed == <<81,51,95,112,105,105,95,114,101,109,111,118,101,100>>
str_language == <<108,97,110,103,117,97,103,101>>
str_is_en == <<105,115,95,101,110>>
str_pos_tag == <<112,111,115,95,116,97,103>>
str_theme_mentions == <<116,104,101,109,101,95,109,101,110,116,105,111,110,115>>
str_theme_mentions_user == <<116,104,101,109,101,95,109,101,110,116,105,111,110,115,95,117,115,101,114>>
str_Q3_x_edit == <<81,51,95,120,95,101,100,105,116>>
str_phrases == <<112,104,114,97,115,101,115>>
str_user_phrases == <<117,115,101,114,95,112,104,114,97,115,101,115>>
str_lemmas == <<108,101,109,109,97,115>>
str_words == <<119,111,114,100,115>>

\* The list of lines 150-171.
columns_to_keep == <<
    <<112,114,105,109,97,114,121,95,107,101,121>>,  \* 'primary_key'
    <<105,110,116,101,110,116,115,95,99,108,105,101,110,116,73,68>>,  \* 'intents_clientID'
    <<118,105,115,105,116,73,100>>,  \* 'visitId'
    <<102,117,108,108,86,105,115,105,116,111,114,73,100>>,  \* 'fullVisitorId'
    <<104,105,116,115,95,112,97,103,101,80,97,116,104>>,  \* 'hits_pagePath'
    <<83,116,97,114,116,101,100>>,  \* 'Started'
    <<69,110,100,101,100>>,  \* 'Ended'
    <<81,49,95,120>>,  \* 'Q1_x'
    <<81,50,95,120>>,  \* 'Q2_x'
    <<81,51,95,120,95,101,100,105,116>>,  \* 'Q3_x_edit'
    <<81,52,95,120>>,  \* 'Q4_x'
    <<81,53,95,120>>,  \* 'Q5_x'
    <<81,54,95,120>>,  \* 'Q6_x'
    <<81,55,95,120>>,  \* 'Q7_x'
    <<81,56,95,120>>,  \* 'Q8_x'
    <<115,101,115,115,105,111,110,95,105,100>>,  \* 'session_id'
    <<100,97,121,111,102,119,101,101,107>>,  \* 'dayofweek'
    <<105,115,87,101,101,107,101,110,100>>,  \* 'isWeekend'
    <<104,111,117,114>>,  \* 'hour'
    <<99,111,117,110,116,114,121>>,  \* 'country'
    <<99,111,117,110,116,114,121,95,103,114,111,117,112,105,110,103>>,  \* 'country_grouping'
    <<85,75,95,114,101,103,105,111,110>>,  \* 'UK_region'
    <<85,75,95,109,101,116,114,111,95,97,114,101,97>>,  \* 'UK_metro_area'
    <<99,104,97,110,110,101,108,71,114,111,117,112,105,110,103>>,  \* 'channelGrouping'
    <<100,101,118,105,99,101,67,97,116,101,103,111,114,121>>,  \* 'deviceCategory'
    <<116,111,116,97,108,95,115,101,99,111,110,100,115,95,105,110,95,115,101,115,115,105,111,110,95,97,99,114,111,115,115,95,100,97,121,115>>,  \* 'total_seconds_in_session_across_days'
    <<116,111,116,97,108,95,112,97,103,101,118,105,101,119,115,95,105,110,95,115,101,115,115,105,111,110,95,97,99,114,111,115,115,95,100,97,121,115>>,  \* 'total_pageviews_in_session_across_days'
    <<102,105,110,100,105,110,103,95,99,111,117,110,116>>,  \* 'finding_count'
    <<117,112,100,97,116,101,115,95,97,110,100,95,97,108,101,114,116,115,95,99,111,117,110,116>>,  \* 'updates_and_alerts_count'
    <<110,101,119,115,95,99,111,117,110,116>>,  \* 'news_count'
    <<100,101,99,105,115,105,111,110,115,95,99,111,117,110,116>>,  \* 'decisions_count'
    <<115,112,101,101,99,104,101,115,95,97,110,100,95,115,116,97,116,101,109,101,110,116,115,95,99,111,117,110,116>>,  \* 'speeches_and_statements_count'
    <<116,114,97,110,115,97,99,116,105,111,110,115,95,99,111,117,110,116>>,  \* 'transactions_count'
    <<114,101,103,117,108,97,116,105,111,110,95,99,111,117,110,116>>,  \* 'regulation_count'
    <<103,117,105,100,97,110,99,101,95,99,111,117,110,116>>,  \* 'guidance_count'
    <<98,117,115,105,110,101,115,115,95,115,117,112,112,111,114,116,95,99,111,117,110,116>>,  \* 'business_support_count'
    <<112,111,108,105,99,121,95,99,111,117,110,116>>,  \* 'policy_count'
    <<99,111,110,115,117,108,116,97,116,105,111,110,115,95,99,111,117,110,116>>,  \* 'consultations_count'
    <<114,101,115,101,97,114,99,104,95,99,111,117,110,116>>,  \* 'research_count'
    <<115,116,97,116,105,115,116,105,99,115,95,99,111,117,110,116>>,  \* 'statistics_count'
    <<116,114,97,110,115,112,97,114,101,110,99,121,95,100,97,116,97,95,99,111,117,110,116>>,  \* 'transparency_data_count'
    <<102,114,101,101,100,111,109,95,111,102,95,105,110,102,111,114,109,97,116,105,111,110,95,114,101,108,101,97,115,101,115,95,99,111,117,110,116>>,  \* 'freedom_of_information_releases_count'
    <<105,110,99,105,100,101,110,116,115,95,99,111,117,110,116>>,  \* 'incidents_count'
    <<100,111,110,101,95,112,97,103,101,95,102,108,97,103>>,  \* 'done_page_flag'
    <<99,111,117,110,116,95,99,108,105,101,110,116,95,101,114,114,111,114>>,  \* 'count_client_error'
    <<99,111,117,110,116,95,115,101,114,118,101,114,95,101,114,114,111,114>>,  \* 'count_server_error'
    <<103,97,95,118,105,115,105,116,95,115,116,97,114,116,95,116,105,109,101,115,116,97,109,112>>,  \* 'ga_visit_start_timestamp'
    <<103,97,95,118,105,115,105,116,95,101,110,100,95,116,105,109,101,115,116,97,109,112>>,  \* 'ga_visit_end_timestamp'
    <<105,110,116,101,110,116,115,95,115,116,97,114,116,101,100,95,100,97,116,101>>,  \* 'intents_started_date'
    <<101,118,101,110,116,115,95,115,101,113,117,101,110,99,101>>,  \* 'events_sequence'
    <<115,101,97,114,99,104,95,116,101,114,109,115,95,115,101,113,117,101,110,99,101>>,  \* 'search_terms_sequence'
    <<99,108,101,97,110,101,100,95,115,101,97,114,99,104,95,116,101,114,109,115,95,115,101,113,117,101,110,99,101>>,  \* 'cleaned_search_terms_sequence'
    <<116,111,112,95,108,101,118,101,108,95,116,97,120,111,110,115,95,115,101,113,117,101,110,99,101>>,  \* 'top_level_taxons_sequence'
    <<112,97,103,101,95,102,111,114,109,97,116,95,115,101,113,117,101,110,99,101>>,  \* 'page_format_sequence'
    <<83,101,113,117,101,110,99,101>>,  \* 'Sequence'
    <<80,97,103,101,83,101,113,117,101,110,99,101>>,  \* 'PageSequence'
    <<102,108,97,103,95,102,111,114,95,99,114,105,116,101,114,105,97>>,  \* 'flag_for_criteria'
    <<102,117,108,108,95,117,114,108,95,105,110,95,115,101,115,115,105,111,110,95,102,108,97,103>>,  \* 'full_url_in_session_flag'
    <<85,115,101,114,73,68>>,  \* 'UserID'
    <<85,115,101,114,78,111>>,  \* 'UserNo'
    <<78,97,109,101>>,  \* 'Name'
    <<69,109,97,105,108>>,  \* 'Email'
    <<73,80,32,65,100,100,114,101,115,115>>,  \* 'IP Address'
    <<85,110,105,113,117,101,32,73,68>>,  \* 'Unique ID'
    <<84,114,97,99,107,105,110,103,32,76,105,110,107>>,  \* 'Tracking Link'
    <<99,108,105,101,110,116,73,68>>,  \* 'clientID'
    <<80,97,103,101,32,80,97,116,104>>,  \* 'Page Path'
    <<81,49,95,121>>,  \* 'Q1_y'
    <<81,50,95,121>>,  \* 'Q2_y'
    <<81,51,95,121>>,  \* 'Q3_y'
    <<81,52,95,121>>,  \* 'Q4_y'
    <<81,53,95,121>>,  \* 'Q5_y'
    <<81,54,95,121>>,  \* 'Q6_y'
    <<81,55,95,121>>,  \* 'Q7_y'
    <<81,56,95,121>>,  \* 'Q8_y'
    <<83,116,97,114,116,101,100,95,68,97,116,101>>,  \* 'Started_Date'
    <<69,110,100,101,100,95,68,97,116,101>>,  \* 'Ended_Date'
    <<83,116,97,114,116,101,100,95,68,97,116,101,95,115,117,98,95,49,50,104>>,  \* 'Started_Date_sub_12h'
    <<112,104,114,97,115,101,115>>,  \* 'phrases'
    <<117,115,101,114,95,112,104,114,97,115,101,115>>  \* 'user_phrases'
>>

\* The columns of the survey csv: the columns the export keeps, less the ones
\* the pipeline itself creates, and the raw comment Q3_x.
CsvColumns ==
    SelectSeq(columns_to_keep,
              LAMBDA label : label \notin {str_Q3_x_edit, str_phrases, str_user_phrases})
    \o <<str_Q3_x>>

\* The default of the parameter of preproccess_filter_comment_text.
length_threshold == 4000

(***************************************************************************)
(* Collaborators that live outside this file (preprocess.py,               *)
(* text_chunking.py, regex_category_identification.py), modelled from      *)
(* their contracts.                                                        *)
(***************************************************************************)
\* The chunks the grammar produces in the modelled corpus:
\* "Submit", "the report", "on time", "Form(s) to+fill", "IN \u00c9T\u00c9".
ChunkV  == [label |-> "verb",      text |-> <<83,117,98,109,105,116>>]
ChunkN  == [label |-> "noun",      text |-> <<116,104,101,32,114,101,112,111,114,116>>]
ChunkP  == [label |-> "prep_noun", text |-> <<111,110,32,116,105,109,101>>]
ChunkNV == [label |-> "noun_verb", text |-> <<70,111,114,109,40,115,41,32,116,111,43,102,105,108,108>>]
ChunkPU == [label |-> "prep_noun", text |-> <<73,78,32,201,84,201>>]

\* The survey corpus.  For each document: the raw comment (Q3_x), what
\* PreProcess.replace_pii_regex makes of it, the language
\* PreProcess.detect_language gives for that, the tagged sentences
\* PreProcess.part_of_speech_tag gives for it (tokens <<word, tag, lemma>>)
\* and the chunk sequences, one per sentence, that ChunkParser.extract_phrase
\* returns for the tagged sentences.  A row of the csv is one document.
Corpus == <<
    \* 1: the scenario sentence, brackets and a line break in the comment
    \*    ' Submit the report\u000d\u000a[on time] '
    [Q3_x |-> <<32,83,117,98,109,105,116,32,116,104,101,32,114,101,112,111,114,116,13,10,91,111,110,32,116,105,109,101,93,32>>,
     Q3_pii_removed |-> <<32,83,117,98,109,105,116,32,116,104,101,32,114,101,112,111,114,116,13,10,91,111,110,32,116,105,109,101,93,32>>,
     language |-> "en",
     pos_tag |-> <<<<<<<<83,117,98,109,105,116>>, "VB", <<115,117,98,109,105,116>>>>, <<<<116,104,101>>, "DT", <<116,104,101>>>>, <<<<114,101,112,111,114,116>>, "NN", <<114,101,112,111,114,116>>>>, <<<<111,110>>, "IN", <<111,110>>>>, <<<<116,105,109,101>>, "NN", <<116,105,109,101>>>>>>>>,
     chunks |-> <<<<ChunkV, ChunkN, ChunkP>>>>],
    \* 2: one sentence with a single chunk, an address redacted
    \*    'Submit to a.b@c.uk'
    [Q3_x |-> <<83,117,98,109,105,116,32,116,111,32,97,46,98,64,99,46,117,107>>,
     Q3_pii_removed |-> <<83,117,98,109,105,116,32,116,111,32,91,101,109,97,105,108,93>>,
     language |-> "-",
     pos_tag |-> <<<<<<<<83,117,98,109,105,116>>, "VB", <<115,117,98,109,105,116>>>>, <<<<116,111>>, "TO", <<116,111>>>>, <<<<91,101,109,97,105,108,93>>, "NN", <<91,101,109,97,105,108,93>>>>>>>>,
     chunks |-> <<<<ChunkV>>>>],
    \* 3: four sentences of 2, 1, 3 and 2 chunks
    \*    'Submit the report. the report. the report on time the report. Form(s) to+fill Form(s) to+fill'
    [Q3_x |-> <<83,117,98,109,105,116,32,116,104,101,32,114,101,112,111,114,116,46,32,116,104,101,32,114,101,112,111,114,116,46,32,116,104,101,32,114,101,112,111,114,116,32,111,110,32,116,105,109,101,32,116,104,101,32,114,101,112,111,114,116,46,32,70,111,114,109,40,115,41,32,116,111,43,102,105,108,108,32,70,111,114,109,40,115,41,32,116,111,43,102,105,108,108>>,
     Q3_pii_removed |-> <<83,117,98,109,105,116,32,116,104,101,32,114,101,112,111,114,116,46,32,116,104,101,32,114,101,112,111,114,116,46,32,116,104,101,32,114,101,112,111,114,116,32,111,110,32,116,105,109,101,32,116,104,101,32,114,101,112,111,114,116,46,32,70,111,114,109,40,115,41,32,116,111,43,102,105,108,108,32,70,111,114,109,40,115,41,32,116,111,43,102,105,108,108>>,
     language |-> "en",
     pos_tag |-> <<<<<<<<83,117,98,109,105,116>>, "VB", <<115,117,98,109,105,116>>>>, <<<<116,104,101>>, "NN", <<116,104,101>>>>, <<<<114,101,112,111,114,116>>, "NN", <<114,101,112,111,114,116>>>>>>,
                   <<<<<<116,104,101>>, "NN", <<116,104,101>>>>, <<<<114,101,112,111,114,116>>, "NN", <<114,101,112,111,114,116>>>>>>,
                   <<<<<<116,104,101>>, "NN", <<116,104,101>>>>, <<<<114,101,112,111,114,116>>, "NN", <<114,101,112,111,114,116>>>>, <<<<111,110>>, "IN", <<111,110>>>>, <<<<116,105,109,101>>, "IN", <<116,105,109,101>>>>, <<<<116,104,101>>, "NN", <<116,104,101>>>>, <<<<114,101,112,111,114,116>>, "NN", <<114,101,112,111,114,116>>>>>>,
                   <<<<<<70,111,114,109,40,115,41>>, "NN", <<102,111,114,109,40,115,41>>>>, <<<<116,111,43,102,105,108,108>>, "NN", <<116,111,43,102,105,108,108>>>>, <<<<70,111,114,109,40,115,41>>, "NN", <<102,111,114,109,40,115,41>>>>, <<<<116,111,43,102,105,108,108>>, "NN", <<116,111,43,102,105,108,108>>>>>>>>,
     chunks |-> <<<<ChunkV, ChunkN>>, <<ChunkN>>, <<ChunkN, ChunkP, ChunkN>>, <<ChunkNV, ChunkNV>>>>],
    \* 4: two sentences of four chunks
    \*    'Submit the report on time Form(s) to+fill. Form(s) to+fill on time the report Submit'
    [Q3_x |-> <<83,117,98,109,105,116,32,116,104,101,32,114,101,112,111,114,116,32,111,110,32,116,105,109,101,32,70,111,114,109,40,115,41,32,116,111,43,102,105,108,108,46,32,70,111,114,109,40,115,41,32,116,111,43,102,105,108,108,32,111,110,32,116,105,109,101,32,116,104,101,32,114,101,112,111,114,116,32,83,117,98,109,105,116>>,
     Q3_pii_removed |-> <<83,117,98,109,105,116,32,116,104,101,32,114,101,112,111,114,116,32,111,110,32,116,105,109,101,32,70,111,114,109,40,115,41,32,116,111,43,102,105,108,108,46,32,70,111,114,109,40,115,41,32,116,111,43,102,105,108,108,32,111,110,32,116,105,109,101,32,116,104,101,32,114,101,112,111,114,116,32,83,117,98,109,105,116>>,
     language |-> "en",
     pos_tag |-> <<<<<<<<83,117,98,109,105,116>>, "VB", <<115,117,98,109,105,116>>>>, <<<<116,104,101>>, "NN", <<116,104,101>>>>, <<<<114,101,112,111,114,116>>, "NN", <<114,101,112,111,114,116>>>>, <<<<111,110>>, "IN", <<111,110>>>>, <<<<116,105,109,101>>, "IN", <<116,105,109,101>>>>, <<<<70,111,114,109,40,115,41>>, "NN", <<102,111,114,109,40,115,41>>>>, <<<<116,111,43,102,105,108,108>>, "NN", <<116,111,43,102,105,108,108>>>>>>,
                   <<<<<<70,111,114,109,40,115,41>>, "NN", <<102,111,114,109,40,115,41>>>>, <<<<116,111,43,102,105,108,108>>, "NN", <<116,111,43,102,105,108,108>>>>, <<<<111,110>>, "IN", <<111,110>>>>, <<<<116,105,109,101>>, "IN", <<116,105,109,101>>>>, <<<<116,104,101>>, "NN", <<116,104,101>>>>, <<<<114,101,112,111,114,116>>, "NN", <<114,101,112,111,114,116>>>>, <<<<83,117,98,109,105,116>>, "VB", <<115,117,98,109,105,116>>>>>>>>,
     chunks |-> <<<<ChunkV, ChunkN, ChunkP, ChunkNV>>, <<ChunkNV, ChunkP, ChunkN, ChunkV>>>>],
    \* 5: three sentences, the second without any chunk, upper-case non-ASCII text
    \*    'on time IN \u00c9T\u00c9. ! Submit Submit'
    [Q3_x |-> <<111,110,32,116,105,109,101,32,73,78,32,201,84,201,46,32,33,32,83,117,98,109,105,116,32,83,117,98,109,105,116>>,
     Q3_pii_removed |-> <<111,110,32,116,105,109,101,32,73,78,32,201,84,201,46,32,33,32,83,117,98,109,105,116,32,83,117,98,109,105,116>>,
     language |-> "-",
     pos_tag |-> <<<<<<<<111,110>>, "IN", <<111,110>>>>, <<<<116,105,109,101>>, "IN", <<116,105,109,101>>>>, <<<<73,78>>, "IN", <<105,110>>>>, <<<<201,84,201>>, "IN", <<233,116,233>>>>>>,
                   <<<<<<33>>, ".", <<33>>>>>>,
                   <<<<<<83,117,98,109,105,116>>, "VB", <<115,117,98,109,105,116>>>>, <<<<83,117,98,109,105,116>>, "VB", <<115,117,98,109,105,116>>>>>>>>,
     chunks |-> <<<<ChunkP, ChunkPU>>, <<>>, <<ChunkV, ChunkV>>>>],
    \* 6: white space only (no-break space, blank, vertical tab): nothing tagged
    \*    '\u00a0 \u000b'
    [Q3_x |-> <<160,32,11>>,
     Q3_pii_removed |-> <<160,32,11>>,
     language |-> "un",
     pos_tag |-> <<>>,
     chunks |-> <<>>],
    \* 7: a comment in French: dropped by the language filter
    \*    'Bonjour'
    [Q3_x |-> <<66,111,110,106,111,117,114>>,
     Q3_pii_removed |-> <<66,111,110,106,111,117,114>>,
     language |-> "fr",
     pos_tag |-> <<<<<<<<66,111,110,106,111,117,114>>, "NN", <<98,111,110,106,111,117,114>>>>>>>>,
     chunks |-> <<<<ChunkN>>>>],
    \* 8: a comment of length_threshold characters: dropped by the
    \*    length filter
    [Q3_x |-> [n \in 1..length_threshold |-> 120],
     Q3_pii_removed |-> [n \in 1..length_threshold |-> 120],
     language |-> "en",
     pos_tag |-> << <<<<[n \in 1..length_threshold |-> 120], "NN", <<120>>>>>> >>,
     chunks |-> << <<>> >>]
>>

\* PreProcess.replace_pii_regex(text)
replace_pii_regex(text) ==
    Corpus[CHOOSE d \in 1..Len(Corpus) : Corpus[d].Q3_x = text].Q3_pii_removed

\* PreProcess.detect_language(text)
detect_language(text) ==
    Corpus[CHOOSE d \in 1..Len(Corpus) : Corpus[d].Q3_pii_removed = text].language

\* PreProcess.part_of_speech_tag(text)
part_of_speech_tag(text) ==
    Corpus[CHOOSE d \in 1..Len(Corpus) : Corpus[d].Q3_pii_removed = text].pos_tag

\* ChunkParser.extract_phrase(vals, merge_inplace=True): the sentences of the
\* document, each a sequence of chunks.
extract_phrase(vals) ==
    Corpus[CHOOSE d \in 1..Len(Corpus) : Corpus[d].pos_tag = vals].chunks

\* itertools-style r-combinations of one sequence: order preserving, without
\* repetition, in index order.
RECURSIVE Combinations(_, _)
Combinations(seq, r) ==
    IF r = 0 THEN << <<>> >>
    ELSE IF Len(seq) < r THEN <<>>
    ELSE LET withHead == Combinations(Tail(seq), r - 1)
         IN  [n \in 1..Len(withHead) |-> <<Head(seq)>> \o withHead[n]]
             \o Combinations(Tail(seq), r)

\* PreProcess.compute_combinations(sentences, r): the r-combinations of each
\* sentence's chunks, sentence after sentence.
compute_combinations(sentences, r) ==
    Flatten([s \in 1..Len(sentences) |-> Combinations(sentences[s], r)])

\* regex_group_verbs / regex_for_theme: pure classifiers of the string they
\* are given.  The category is kept symbolic, as the application itself: a
\* mark for the classifier (-2, -3; no code points), the argument, and a
\* closing mark (-4).
regex_group_verbs(s) == <<-2>> \o s \o <<-4>>
regex_for_theme(s) == <<-3>> \o s \o <<-4>>

\* PreProcess.resolve_function: list of mentions -> list of mentions, dropping
\* repeated mentions and keeping the first occurrence of each.
RECURSIVE resolve_function(_)
resolve_function(mentions) ==
    IF mentions = <<>> THEN <<>>
    ELSE LET front == resolve_function(SubSeq(mentions, 1, Len(mentions) - 1))
             last == mentions[Len(mentions)]
         IN  IF \E n \in 1..Len(front) : front[n] = last THEN front
             ELSE Append(front, last)

\* PreProcess.find_needle(needle, haystack): a dict with one entry, the needle
\* mapped to the first substring of the haystack that equals it up to case,
\* or to None.  The dict is the sequence of its (key, value) items.
find_needle(needle, haystack) ==
    LET n == Len(needle)
        hits == {p \in 1..(Len(haystack) - n + 1) :
                    Lower(SubSeq(haystack, p, p + n - 1)) = Lower(needle)}
        first == CHOOSE p \in hits : \A q \in hits : p <= q
    IN  << <<needle, IF hits = {} THEN None
                     ELSE SubSeq(haystack, first, first + n - 1)>> >>

\* dict.values()
Values(dict) == [n \in 1..Len(dict) |-> dict[n][2]]

(***************************************************************************)
(* preproccess_filter_comment_text and the tagging of create_dataset       *)
(***************************************************************************)
\* The languages of line 35.
IsEn == {"en", "un", "-", "sco"}

\* Line 25: the redacted comment is written into the frame that was read.
WithPiiRemoved(full_df) ==
    SetColumn(full_df, str_Q3_pii_removed,
              [r \in 1..NRows(full_df) |->
                  replace_pii_regex(Column(full_df, str_Q3_x)[r].v)])

\* Line 26: the rows whose redacted comment is shorter than the threshold.
ShortComments(full_df) ==
    SelectRows(full_df,
               [r \in 1..NRows(full_df) |->
                   Len(Column(full_df, str_Q3_pii_removed)[r]) < length_threshold])

\* Line 28: the language column.
WithLanguage(full_df) ==
    SetColumn(full_df, str_language,
              [r \in 1..NRows(full_df) |->
                  detect_language(Column(full_df, str_Q3_pii_removed)[r])])

\* Line 30: the keys of lang_dist, the languages that occur in the frame.
LangDistKeys(full_df) ==
    {Column(full_df, str_language)[r] : r \in 1..NRows(full_df)}

\* Lines 35-37: the is_en column, and the rows for which it holds.
EnglishRows(full_df) ==
    SelectRows(SetColumn(full_df, str_is_en,
                         [r \in 1..NRows(full_df) |->
                             Column(full_df, str_language)[r] \in IsEn]),
               [r \in 1..NRows(full_df) |->
                   Column(full_df, str_language)[r] \in IsEn])

\* Lines 25-37.  The debug messages of lines 32-33 look up lang_dist['en']
\* and lang_dist['-']: when no row is in English, or none has the language
\* '-', the lookup raises KeyError and create_dataset ends, the frame that
\* was read holding the redacted comments.
PreprocessFilterCommentText ==
    /\ pc = "preprocess"
    /\ LET lang_dist == LangDistKeys(WithLanguage(ShortComments(WithPiiRemoved(df))))
       IN  IF "en" \notin lang_dist \/ "-" \notin lang_dist
           THEN /\ pc' = "raised"
                /\ df' = WithPiiRemoved(df)
           ELSE /\ pc' = "pos_tag"
                /\ df' = EnglishRows(WithLanguage(ShortComments(WithPiiRemoved(df))))
    /\ UNCHANGED <<phrase_mentions, i, sents, combos, k, todo, csv>>

\* Lines 140-142: the pos_tag column.
PartOfSpeechTag ==
    /\ pc = "pos_tag"
    /\ LET Q3_pii_removed == Column(df, str_Q3_pii_removed)
           is_en == Column(df, str_is_en)
       IN  df' = SetColumn(df, str_pos_tag,
                     [r \in 1..NRows(df) |->
                         IF is_en[r] THEN part_of_speech_tag(Q3_pii_removed[r])
                         ELSE <<>>])
    /\ pc' = "extract"
    /\ UNCHANGED <<phrase_mentions, i, sents, combos, k, todo, csv>>

(***************************************************************************)
(* extract_phrase_mentions                                                 *)
(***************************************************************************)
\* A buggy allow-list that also lets (noun, verb) through.
AllowListNounVerb ==
    { <<"verb", "noun">>, <<"verb", "prep_noun">>, <<"verb", "noun_verb">>,
      <<"noun", "prep_noun">>, <<"prep_noun", "noun">>,
      <<"prep_noun", "prep_noun">>, <<"noun", "verb">> }

\* The list of keys tested on lines 78-80.
AllowList ==
    { <<"verb", "noun">>, <<"verb", "prep_noun">>, <<"verb", "noun_verb">>,
      <<"noun", "prep_noun">>, <<"prep_noun", "noun">>,
      <<"prep_noun", "prep_noun">> }

\* A buggy join of the two arguments without the separating blank.
PhraseNoSpace(arg1, arg2) == arg1 \o arg2

\* f"{arg1} {arg2}" (line 85)
Phrase(arg1, arg2) == arg1 \o <<32>> \o arg2

\* f"{regex_group_verbs(arg1)} - {regex_for_theme(arg2)}" (line 81)
MentionTheme(arg1, arg2) ==
    regex_group_verbs(arg1) \o <<32,45,32>> \o regex_for_theme(arg2)

\* key = (combo[0].label, combo[1].label) (line 74)
Key(combo) == <<combo[1].label, combo[2].label>>

\* Lines 75-86 for an accepted combo: the tuple appended to the accumulator.
Mention(combo) ==
    LET lowered1 == Lower(combo[1].text)
        lowered2 == Lower(combo[2].text)
        mention_theme == MentionTheme(lowered1, lowered2)
        arg1 == StripBrackets(lowered1)
        arg2 == StripBrackets(lowered2)
    IN  <<Key(combo), Phrase(arg1, arg2), mention_theme, <<arg1, arg2>> >>

\* A buggy start of a row that reuses the previous row's list instead of a
\* fresh one.
StartRowCarry(pm) == Append(pm, IF pm = <<>> THEN <<>> ELSE pm[Len(pm)])

\* phrase_mentions.append([]) (line 72)
StartRow(pm) == Append(pm, <<>>)

\* A buggy append that inserts at the front of the row's list.
AppendMentionFront(pm, m) == [pm EXCEPT ![Len(pm)] = <<m>> \o @]

\* A buggy append that always writes to the first row's list.
AppendMentionFirst(pm, m) == [pm EXCEPT ![1] = Append(@, m)]

\* phrase_mentions[-1].append(...) (line 86)
AppendMention(pm, m) == [pm EXCEPT ![Len(pm)] = Append(@, m)]

\* A buggy call that hands the parser's chunks over as one single sentence.
GeneratorFlat(s) == compute_combinations(<<Flatten(s)>>, 2)

\* PreProcess.compute_combinations(sents, 2) (line 73)
Generator(s) == compute_combinations(s, 2)

\* Lines 70-72: the for loop takes the next value of df.pos_tag, parses it and
\* opens the row's list; the generator for the row is created.
NextRow ==
    /\ pc = "extract"
    /\ k > Len(combos)
    /\ i < NRows(df)
    /\ i' = i + 1
    /\ sents' = extract_phrase(Column(df, str_pos_tag)[i + 1])
    /\ phrase_mentions' = StartRow(phrase_mentions)
    /\ combos' = Generator(sents')
    /\ k' = 1
    /\ UNCHANGED <<pc, df, todo, csv>>

\* Lines 73-86: one iteration of the inner loop.
NextCombo ==
    /\ pc = "extract"
    /\ k <= Len(combos)
    /\ LET combo == combos[k]
       IN  phrase_mentions' =
               IF Key(combo) \in AllowList
               THEN AppendMention(phrase_mentions, Mention(combo))
               ELSE phrase_mentions
    /\ k' = k + 1
    /\ UNCHANGED <<pc, df, i, sents, combos, todo, csv>>

\* Lines 88-89: both loops are over; the two mention columns are assigned.
AssignMentions ==
    /\ pc = "extract"
    /\ k > Len(combos)
    /\ i = NRows(df)
    /\ df' = SetColumn(
                SetColumn(df, str_theme_mentions,
                          [r \in 1..Len(phrase_mentions) |-> Obj(phrase_mentions[r])]),
                str_theme_mentions_user,
                [r \in 1..Len(phrase_mentions) |-> Obj(resolve_function(phrase_mentions[r]))])
    /\ pc' = "columns"
    /\ UNCHANGED <<phrase_mentions, i, sents, combos, k, todo, csv>>

(***************************************************************************)
(* create_phrase_level_columns and create_phrase_level_data                *)
(***************************************************************************)
\* f'{phrase_type}_dict', f'{phrase_type}_list'
DictColumn(phrase_type) == phrase_type \o <<95,100,105,99,116>>
ListColumn(phrase_type) == phrase_type \o <<95,108,105,115,116>>

\* Lines 118-119 for one cell of Q3_x: NaN becomes '', then the brackets and
\* plus signs are deleted and the white space is normalised.
CleanComment(cell) ==
    LET text == IF IsFloat(cell) THEN <<>> ELSE cell.v
    IN  Join(<<32>>, Split(StripBrackets(text)))

\* x[1].lower() (line 102): the haystack handed to find_needle.
Haystack(text) == Lower(text)

\* The lambda of lines 101-102 for a row whose mention cell is a list.
PhraseDicts(mentions, text) ==
    [m \in 1..Len(mentions) |-> find_needle(mentions[m][2], Haystack(text))]

\* A variant of the flattening that keeps the absent values.
AllValues(x) == Flatten([n \in 1..Len(x) |-> Values(x[n])])

\* [value for phrase_dict in x for value in phrase_dict.values()
\*  if value is not None] (lines 103-105)
NonNoneValues(x) ==
    SelectSeq(Flatten([n \in 1..Len(x) |-> Values(x[n])]), LAMBDA value : value # None)

\* The lambda of lines 103-106 for one cell of the _dict column.
PhraseList(cell) == IF ~IsFloat(cell) THEN NonNoneValues(cell.v) ELSE <<>>

\* ", ".join(x) (line 108)
Display(x) == Join(<<44,32>>, x)

\* Lines 118-122: the cleaned comment column is written and the two calls of
\* create_phrase_level_data are made, one after the other.
CreatePhraseLevelColumns ==
    /\ pc = "columns"
    /\ df' = SetColumn(df, str_Q3_x_edit,
                       [r \in 1..NRows(df) |-> CleanComment(Column(df, str_Q3_x)[r])])
    /\ todo' = << <<str_theme_mentions, str_phrases>>,
                  <<str_theme_mentions_user, str_user_phrases>> >>
    /\ pc' = "dict"
    /\ UNCHANGED <<phrase_mentions, i, sents, combos, k, csv>>

\* Lines 101-102: the _dict column.  Iterating over a cell that holds NaN
\* raises TypeError ('float' object is not iterable); the exception leaves
\* create_phrase_level_data and nothing is assigned.
BuildDict ==
    /\ pc = "dict"
    /\ LET theme_col == todo[1][1]
           phrase_type == todo[1][2]
           x0 == Column(df, theme_col)
           x1 == Column(df, str_Q3_x_edit)
       IN  IF \E r \in 1..NRows(df) : IsFloat(x0[r])
           THEN /\ pc' = "raised"
                /\ df' = df
           ELSE /\ pc' = "list"
                /\ df' = SetColumn(df, DictColumn(phrase_type),
                        [r \in 1..NRows(df) |-> Obj(PhraseDicts(x0[r].v, x1[r]))])
    /\ UNCHANGED <<phrase_mentions, i, sents, combos, k, todo, csv>>

\* Lines 103-106: the _list column.
BuildList ==
    /\ pc = "list"
    /\ LET phrase_type == todo[1][2]
           dicts == Column(df, DictColumn(phrase_type))
       IN  df' = SetColumn(df, ListColumn(phrase_type),
                           [r \in 1..Len(dicts) |-> PhraseList(dicts[r])])
    /\ pc' = "join"
    /\ UNCHANGED <<phrase_mentions, i, sents, combos, k, todo, csv>>

\* Line 108: the display column; create_phrase_level_data returns, to the
\* next call of line 122 or to its caller.
BuildDisplay ==
    /\ pc = "join"
    /\ LET phrase_type == todo[1][2]
           lists == Column(df, ListColumn(phrase_type))
       IN  df' = SetColumn(df, phrase_type,
                           [r \in 1..Len(lists) |-> Display(lists[r])])
    /\ todo' = Tail(todo)
    /\ pc' = IF Tail(todo) = <<>> THEN "returned" ELSE "dict"
    /\ UNCHANGED <<phrase_mentions, i, sents, combos, k, csv>>

(***************************************************************************)
(* save_intermediate_df and the export of create_dataset                   *)
(***************************************************************************)
\* [token[j] for sent in x for token in sent] (lines 49-50; j is 2 for the
\* lemmas and 0 for the words, counted from 0)
TokenField(x, j) ==
    Flatten([s \in 1..Len(x) |-> [t \in 1..Len(x[s]) |-> x[s][t][j + 1]]])

\* Lines 49-50: the lemmas and words columns.
WithTokenFields(processed_df) ==
    SetColumn(SetColumn(processed_df, str_lemmas,
                        [r \in 1..NRows(processed_df) |->
                            TokenField(Column(processed_df, str_pos_tag)[r], 2)]),
              str_words,
              [r \in 1..NRows(processed_df) |->
                  TokenField(Column(processed_df, str_pos_tag)[r], 0)])

\* Lines 148 and 49-52: the lemmas and words columns are added to the frame
\* and the frame is written to the cache file.
SaveIntermediateDf ==
    /\ pc = "returned"
    /\ df' = WithTokenFields(df)
    /\ csv' = Append(csv, [file |-> "cache_pos_filename", frame |-> WithTokenFields(df)])
    /\ pc' = "export"
    /\ UNCHANGED <<phrase_mentions, i, sents, combos, k, todo>>

\* Lines 173-174: the cleaned comment column is renamed to Q3_x in place, then
\* the columns of columns_to_keep are selected and written.  The selection
\* raises KeyError when a label of the list is no column of the frame.
ExportDataset ==
    /\ pc = "export"
    /\ df' = RenameColumn(df, str_Q3_x_edit, str_Q3_x)
    /\ IF ~HasColumns(RenameColumn(df, str_Q3_x_edit, str_Q3_x), columns_to_keep)
       THEN /\ pc' = "raised"
            /\ csv' = csv
       ELSE /\ pc' = "done"
            /\ csv' = Append(csv, [file |-> "output_filename",
                                   frame |-> SelectColumns(
                                       RenameColumn(df, str_Q3_x_edit, str_Q3_x),
                                       columns_to_keep)])
    /\ UNCHANGED <<phrase_mentions, i, sents, combos, k, todo>>

(***************************************************************************)
(* create_dataset: the frame read from the survey csv (line 136), rows     *)
(* drawn from the corpus; the other columns of the csv are empty.          *)
(***************************************************************************)
Frames == UNION {[1..n -> 1..Len(Corpus)] : n \in 1..MaxRows}

Init ==
    /\ pc = "preprocess"
    /\ \E docs \in Frames :
          df = [c \in 1..Len(CsvColumns) |->
                   [name |-> CsvColumns[c],
                    cells |-> IF CsvColumns[c] = str_Q3_x
                              THEN [r \in 1..Len(docs) |-> Obj(Corpus[docs[r]].Q3_x)]
                              ELSE [r \in 1..Len(docs) |-> NaN]]]
    /\ phrase_mentions = <<>>
    /\ i = 0
    /\ sents = <<>>
    /\ combos = <<>>
    /\ k = 1
    /\ todo = <<>>
    /\ csv = <<>>

Next ==
    \/ PreprocessFilterCommentText
    \/ PartOfSpeechTag
    \/ NextRow
    \/ NextCombo
    \/ AssignMentions
    \/ CreatePhraseLevelColumns
    \/ BuildDict
    \/ BuildList
    \/ BuildDisplay
    \/ SaveIntermediateDf
    \/ ExportDataset

Spec == Init /\ [][Next]_vars

(***************************************************************************)
(* create_phrase_level_data called on its own, on a frame whose mention    *)
(* column and cleaned comments are given.                                  *)
(***************************************************************************)
UnknownTheme == <<117,110,107,110,111,119,110,32,45,32,117,110,107,110,111,119,110>>

MentionPF == << <<"noun", "prep_noun">>, <<112,114,111,106,101,99,116,32,102,117,110,100,105,110,103>>, UnknownTheme,
                <<<<112,114,111,106,101,99,116>>, <<102,117,110,100,105,110,103>>>> >>
MentionNM == << <<"verb", "noun">>, <<110,111,32,109,97,116,99,104>>, UnknownTheme,
                <<<<110,111>>, <<109,97,116,99,104>>>> >>
MentionWD == << <<"verb", "noun">>, <<119,101,32,100,105,115,99,117,115,115,101,100>>, UnknownTheme,
                <<<<119,101>>, <<100,105,115,99,117,115,115,101,100>>>> >>
\* "d\u00e9j\u00e0 vu"
MentionDV == << <<"noun", "prep_noun">>, <<100,233,106,224,32,118,117>>, UnknownTheme,
                <<<<100,233,106,224>>, <<118,117>>>> >>
\* "i\u0307stanbul vu": what lower() makes of "\u0130STANBUL VU"
MentionIV == << <<"noun", "prep_noun">>, <<105,775,115,116,97,110,98,117,108,32,118,117>>, UnknownTheme,
                <<<<105,775,115,116,97,110,98,117,108>>, <<118,117>>>> >>
\* "\u03bf\u03b4\u03bf\u03c2 \u03bf\u03b4\u03bf\u03c2", each word with a final sigma
MentionOD == << <<"noun", "prep_noun">>, <<959,948,959,962,32,959,948,959,962>>, UnknownTheme,
                <<<<959,948,959,962>>, <<959,948,959,962>>>> >>

\* "We discussed Project Funding yesterday."
CommentWD == <<87,101,32,100,105,115,99,117,115,115,101,100,32,80,114,111,106,101,99,116,32,70,117,110,100,105,110,103,32,121,101,115,116,101,114,100,97,121,46>>
\* "PROJECT FUNDING project funding"
CommentPF == <<80,82,79,74,69,67,84,32,70,85,78,68,73,78,71,32,112,114,111,106,101,99,116,32,102,117,110,100,105,110,103>>
\* "D\u00c9J\u00c0 VU \u0130STANBUL VU"
CommentDV == <<68,201,74,192,32,86,85,32,304,83,84,65,78,66,85,76,32,86,85>>
\* "\u039f\u0394\u039f\u03a3 \u039f\u0394\u039f\u03a3.", in capitals
CommentOD == <<927,916,927,931,32,927,916,927,931,46>>

\* Rows handed to create_phrase_level_data: the cell of the mention column
\* (a list of mentions, or NaN) and the cleaned comment.
DataRows == <<
    [mentions |-> NaN, Q3_x_edit |-> CommentWD],
    [mentions |-> Obj(<<MentionPF>>), Q3_x_edit |-> CommentWD],
    [mentions |-> Obj(<<MentionNM, MentionPF, MentionWD>>), Q3_x_edit |-> CommentWD],
    [mentions |-> Obj(<<>>), Q3_x_edit |-> <<>>],
    [mentions |-> Obj(<<MentionPF>>), Q3_x_edit |-> <<>>],
    [mentions |-> Obj(<<MentionPF, MentionPF>>), Q3_x_edit |-> CommentPF],
    [mentions |-> Obj(<<MentionDV, MentionIV>>), Q3_x_edit |-> CommentDV],
    [mentions |-> Obj(<<MentionOD>>), Q3_x_edit |-> CommentOD]
>>

DataFrames == UNION {[1..n -> 1..Len(DataRows)] : n \in 1..MaxRows}

Calls == { <<str_theme_mentions, str_phrases>>,
           <<str_theme_mentions_user, str_user_phrases>> }

InitData ==
    /\ pc = "dict"
    /\ \E rows \in DataFrames, call \in Calls :
          /\ df = << [name |-> call[1],
                      cells |-> [r \in 1..Len(rows) |-> DataRows[rows[r]].mentions]],
                     [name |-> str_Q3_x_edit,
                      cells |-> [r \in 1..Len(rows) |-> DataRows[rows[r]].Q3_x_edit]] >>
          /\ todo = <<call>>
    /\ phrase_mentions = <<>>
    /\ i = 0
    /\ sents = <<>>
    /\ combos = <<>>
    /\ k = 1
    /\ csv = <<>>

NextData ==
    \/ BuildDict
    \/ BuildList
    \/ BuildDisplay

SpecData == InitData /\ [][NextData]_vars

(***************************************************************************)
(* Properties                                                              *)
(***************************************************************************)
\* The six admissible keys, as the specification lists them.
SixKeys ==
    { <<"verb", "noun">>, <<"verb", "prep_noun">>, <<"verb", "noun_verb">>,
      <<"noun", "prep_noun">>, <<"prep_noun", "noun">>,
      <<"prep_noun", "prep_noun">> }

\* The sentences the parser returns for row r of the frame.
RowSents(r) == extract_phrase(Column(df, str_pos_tag)[r])

\* The inner loop has taken every combination of row r.
RowDone(r) == r < i \/ (r = i /\ k > Len(combos))

PairLabels(pair) == <<pair[1].label, pair[2].label>>

\* t with every bracket and plus character left out.
RECURSIVE Without(_)
Without(t) ==
    IF t = <<>> THEN <<>>
    ELSE IF Head(t) \in {40, 41, 91, 93, 43} THEN Without(Tail(t))
    ELSE <<Head(t)>> \o Without(Tail(t))

PairArgs(pair) == <<Without(Lower(pair[1].text)), Without(Lower(pair[2].text))>>

\* Number of pairs of a sentence of n chunks, and the place of the pair of
\* chunks a < b among them in index order.
PairCount(n) == (n * (n - 1)) \div 2
Rank(n, a, b) == (a - 1) * n - (a * (a - 1)) \div 2 + (b - a)

\* Number of pairs of the sentences before sentence s.
RECURSIVE Offset(_, _)
Offset(ss, s) ==
    IF s <= 1 THEN 0 ELSE Offset(ss, s - 1) + PairCount(Len(ss[s - 1]))

TotalPairs(ss) == Offset(ss, Len(ss) + 1)

\* The positions (sentence, a, b), a < b, of the pairs of the sentences ss.
Positions(ss) ==
    {t \in UNION {{<<s, a, b>> : a \in 1..Len(ss[s]), b \in 1..Len(ss[s])} :
                       s \in 1..Len(ss)} :
        t[2] < t[3]}

\* The pairs of ss in generation order: sentence order, then index order.
PairAt(ss, t) == <<ss[t[1]][t[2]], ss[t[1]][t[3]]>>

InOrder(ss) ==
    [p \in 1..TotalPairs(ss) |->
        PairAt(ss, CHOOSE t \in Positions(ss) :
                       Offset(ss, t[1]) + Rank(Len(ss[t[1]]), t[2], t[3]) = p)]

\* C1: every mention in the accumulator has one of the six admissible keys,
\* and an iteration of the loop whose pair has any other key leaves the
\* accumulator as it was.
C1_AllowListClosure ==
    /\ [](\A r \in 1..Len(phrase_mentions) :
            \A m \in 1..Len(phrase_mentions[r]) :
                phrase_mentions[r][m][1] \in SixKeys)
    /\ [][(/\ pc = "extract"
           /\ k <= Len(combos)
           /\ k' = k + 1
           /\ PairLabels(combos[k]) \notin SixKeys)
          => phrase_mentions' = phrase_mentions]_vars

\* A pair with a key outside the list has just been discarded from a row that
\* already holds a mention.
C1_Witness ==
    /\ pc = "extract"
    /\ k > 1
    /\ k <= Len(combos)
    /\ PairLabels(combos[k - 1]) \notin SixKeys
    /\ phrase_mentions[Len(phrase_mentions)] # <<>>

\* C2: a row whose single sentence is verb "Submit", noun "the report",
\* prep_noun "on time" ends with exactly three mentions, in this order:
\* (verb, noun) "submit the report", (verb, prep_noun) "submit on time",
\* (noun, prep_noun) "the report on time".
ScenarioSents ==
    << << [label |-> "verb", text |-> <<83,117,98,109,105,116>>],
          [label |-> "noun", text |-> <<116,104,101,32,114,101,112,111,114,116>>],
          [label |-> "prep_noun", text |-> <<111,110,32,116,105,109,101>>] >> >>

C2_EndToEnd ==
    \A r \in 1..Len(phrase_mentions) :
        (RowDone(r) /\ RowSents(r) = ScenarioSents) =>
            /\ Len(phrase_mentions[r]) = 3
            /\ phrase_mentions[r][1][1] = <<"verb", "noun">>
            /\ phrase_mentions[r][1][2] = <<115,117,98,109,105,116,32,116,104,101,32,114,101,112,111,114,116>>
            /\ phrase_mentions[r][2][1] = <<"verb", "prep_noun">>
            /\ phrase_mentions[r][2][2] = <<115,117,98,109,105,116,32,111,110,32,116,105,109,101>>
            /\ phrase_mentions[r][3][1] = <<"noun", "prep_noun">>
            /\ phrase_mentions[r][3][2] = <<116,104,101,32,114,101,112,111,114,116,32,111,110,32,116,105,109,101>>

\* The scenario row has been processed to its end.
C2_Witness ==
    \E r \in 1..Len(phrase_mentions) : RowDone(r) /\ RowSents(r) = ScenarioSents

\* C5: a row none of whose sentences has two chunks ends with an empty list
\* of mentions, present in theme_mentions, and with the empty string in the
\* phrases column.
NoPairsIn(ss) == \A s \in 1..Len(ss) : Len(ss[s]) < 2
NoPairs(r) == NoPairsIn(RowSents(r))

C5_EmptyInput ==
    /\ \A r \in 1..Len(phrase_mentions) :
          (RowDone(r) /\ NoPairs(r)) => phrase_mentions[r] = <<>>
    /\ HasColumn(df, str_theme_mentions) =>
          /\ Len(Column(df, str_theme_mentions)) = Len(Column(df, str_pos_tag))
          /\ \A r \in 1..NRows(df) :
                NoPairs(r) => Column(df, str_theme_mentions)[r] = Obj(<<>>)
    /\ HasColumn(df, str_phrases) =>
          \A r \in 1..NRows(df) : NoPairs(r) => Column(df, str_phrases)[r] = <<>>

\* Both display columns are written for a frame of two rows whose second row
\* has a single chunk and whose first row has mentions.
C5_Witness ==
    /\ HasColumn(df, str_phrases)
    /\ HasColumn(df, str_user_phrases)
    /\ NRows(df) = 2
    /\ NoPairs(2)
    /\ \E s \in 1..Len(RowSents(2)) : Len(RowSents(2)[s]) = 1
    /\ phrase_mentions[1] # <<>>
    /\ Column(df, str_phrases)[1] # <<>>

\* C6: the combinations taken by the loop for the current row are, sentence
\* after sentence, the n*(n-1)/2 pairs (chunk a, chunk b), a < b, of the
\* sentence's n chunks in index order; no pair spans two sentences and a
\* sentence with fewer than two chunks gives none.
C6_CombinationCompleteness ==
    (i >= 1) =>
        /\ sents = RowSents(i)
        /\ Len(combos) = TotalPairs(sents)
        /\ \A s \in 1..Len(sents) :
              \A a \in 1..Len(sents[s]), b \in 1..Len(sents[s]) :
                  a < b =>
                      combos[Offset(sents, s) + Rank(Len(sents[s]), a, b)]
                          = <<sents[s][a], sents[s][b]>>

\* Every pair of a row of several sentences, one of three chunks and one of a
\* single chunk, has been taken.
C6_Witness ==
    /\ pc = "extract"
    /\ i >= 1
    /\ k > Len(combos)
    /\ \E s \in 1..Len(sents) : Len(sents[s]) = 1
    /\ \E s \in 1..Len(sents) : Len(sents[s]) = 3
    /\ \E s \in 2..Len(sents) : Len(sents[s]) = 2

\* C7: the mentions of a row are the pairs taken so far whose key is
\* admissible, in the order the pairs were generated (sentence order, then
\* index order): the filter removes pairs and never reorders the rest.
Taken(r) ==
    IF r = i THEN SubSeq(InOrder(RowSents(r)), 1, k - 1) ELSE InOrder(RowSents(r))

Survivors(r) == SelectSeq(Taken(r), LAMBDA pair : PairLabels(pair) \in SixKeys)

\* The mentions are the given pairs, one for one and in order.
MentionsOf(mentions, pairs) ==
    /\ Len(mentions) = Len(pairs)
    /\ \A m \in 1..Len(mentions) :
          /\ mentions[m][1] = PairLabels(pairs[m])
          /\ mentions[m][4] = PairArgs(pairs[m])

C7_EncounterOrder ==
    \A r \in 1..Len(phrase_mentions) : MentionsOf(phrase_mentions[r], Survivors(r))

\* A finished row has a mention of its first sentence and mentions of a later
\* one, in which a discarded pair was generated between two accepted ones.
DiscardedBetween(pairs) ==
    /\ PairLabels(pairs[1]) \in SixKeys
    /\ \E p \in 3..(Len(pairs) - 1) :
          /\ PairLabels(pairs[p]) \notin SixKeys
          /\ PairLabels(pairs[p - 1]) \in SixKeys
          /\ PairLabels(pairs[p + 1]) \in SixKeys

C7_Witness ==
    \E r \in 1..Len(phrase_mentions) :
        /\ RowDone(r)
        /\ Len(phrase_mentions[r]) >= 3
        /\ Len(RowSents(r)[1]) = 2
        /\ DiscardedBetween(InOrder(RowSents(r)))

\* Mention mention was built from the chunks c1, c2 as the specification
\* describes it.
ComposedFrom(mention, c1, c2) ==
    LET arg1 == mention[4][1]
        arg2 == mention[4][2]
    IN  /\ mention[1] = <<c1.label, c2.label>>
        /\ arg1 = Without(Lower(c1.text))
        /\ arg2 = Without(Lower(c2.text))
        /\ mention[2] = arg1 \o <<32>> \o arg2
        /\ \A n \in 1..Len(mention[2]) : mention[2][n] \notin {40, 41, 91, 93, 43}
        /\ mention[3] = regex_group_verbs(Lower(c1.text)) \o <<32, 45, 32>>
                            \o regex_for_theme(Lower(c2.text))

\* C8: every mention (key, phrase, theme, (arg1, arg2)) comes from a pair of
\* chunks of its row: arg1 and arg2 are the lowercased chunk texts with the
\* characters ( ) [ ] + deleted, phrase is arg1, one blank, arg2 and holds
\* none of the five characters, and the theme is built from the classifiers
\* applied to the lowercased texts before the deletion.
ComposedIn(mentions, ss) ==
    \A m \in 1..Len(mentions) :
        \E t \in Positions(ss) :
            ComposedFrom(mentions[m], ss[t[1]][t[2]], ss[t[1]][t[3]])

C8_MentionComposition ==
    \A r \in 1..Len(phrase_mentions) : ComposedIn(phrase_mentions[r], RowSents(r))

\* A mention was built from "Submit" and "Form(s) to+fill": its second
\* argument is "forms tofill", the neighbours of the deleted characters
\* fused; and another one from "on time" and "IN \u00c9T\u00c9": its second
\* argument is "in \u00e9t\u00e9".
C8_Witness ==
    /\ \E r \in 1..Len(phrase_mentions) :
          \E m \in 1..Len(phrase_mentions[r]) :
              /\ phrase_mentions[r][m][4][1] = <<115,117,98,109,105,116>>
              /\ phrase_mentions[r][m][4][2] = <<102,111,114,109,115,32,116,111,102,105,108,108>>
    /\ \E r \in 1..Len(phrase_mentions) :
          \E m \in 1..Len(phrase_mentions[r]) :
              /\ phrase_mentions[r][m][4][1] = <<111,110,32,116,105,109,101>>
              /\ phrase_mentions[r][m][4][2] = <<105,110,32,233,116,233>>

\* Mention mention comes from a pair of chunks of the sentences ss.
FromSentences(mention, ss) ==
    \E t \in Positions(ss) :
        /\ mention[1] = <<ss[t[1]][t[2]].label, ss[t[1]][t[3]].label>>
        /\ mention[4] = PairArgs(<<ss[t[1]][t[2]], ss[t[1]][t[3]]>>)

IsPrefix(x, y) == Len(x) <= Len(y) /\ SubSeq(y, 1, Len(x)) = x

\* C10: the accumulator holds one list per row taken, in row order; the list
\* of a row holds only mentions of pairs of that row's own sentences; and a
\* step never changes the list of an earlier row: it opens a new last list or
\* appends to the last one.
C10_RowIsolation ==
    /\ [](/\ Len(phrase_mentions) = i
          /\ \A r \in 1..Len(phrase_mentions) :
                \A m \in 1..Len(phrase_mentions[r]) :
                    FromSentences(phrase_mentions[r][m], RowSents(r)))
    /\ [][/\ Len(phrase_mentions') >= Len(phrase_mentions)
          /\ \A r \in 1..Len(phrase_mentions) :
                IF r < Len(phrase_mentions')
                THEN phrase_mentions'[r] = phrase_mentions[r]
                ELSE IsPrefix(phrase_mentions[r], phrase_mentions'[r])]_vars

\* The second row has received a mention that no pair of the first row gives,
\* after the first row received its own.
C10_Witness ==
    /\ Len(phrase_mentions) = 2
    /\ phrase_mentions[1] # <<>>
    /\ \E m \in 1..Len(phrase_mentions[2]) :
          ~FromSentences(phrase_mentions[2][m], RowSents(1))

(***************************************************************************)
(* Properties of create_phrase_level_data                                  *)
(***************************************************************************)
PhraseTypes == {str_phrases, str_user_phrases}
ThemeColumn(phrase_type) ==
    IF phrase_type = str_phrases THEN str_theme_mentions ELSE str_theme_mentions_user

\* The _list column of phrase_type has been written.
HasList(phrase_type) ==
    /\ HasColumn(df, phrase_type \o <<95, 108, 105, 115, 116>>)
    /\ HasColumn(df, str_Q3_x_edit)

\* The cells of the _list and _dict columns of phrase_type.
ListOf(phrase_type) == Column(df, phrase_type \o <<95, 108, 105, 115, 116>>)
DictOf(phrase_type) == Column(df, phrase_type \o <<95, 100, 105, 99, 116>>)

\* needle occurs in text, code point for code point.
OccursIn(needle, text) ==
    \E p \in 1..(Len(text) - Len(needle) + 1) :
        SubSeq(text, p, p + Len(needle) - 1) = needle

ProjectFunding == <<112,114,111,106,101,99,116,32,102,117,110,100,105,110,103>>
WeDiscussed == <<87,101,32,100,105,115,99,117,115,115,101,100,32,80,114,111,106,101,99,116,32,70,117,110,100,105,110,103,32,121,101,115,116,101,114,100,97,121,46>>

\* Row r holds the single phrase "project funding" and the comment
\* "We discussed Project Funding yesterday.".
IsExampleRow(phrase_type, r) ==
    /\ ~IsFloat(Column(df, ThemeColumn(phrase_type))[r])
    /\ Len(Column(df, ThemeColumn(phrase_type))[r].v) = 1
    /\ Column(df, ThemeColumn(phrase_type))[r].v[1][2] = ProjectFunding
    /\ Column(df, str_Q3_x_edit)[r] = WeDiscussed

\* C3: the haystack is the cleaned comment with its casing, so every value of
\* the _list column occurs letter for letter in the cleaned comment, and the
\* example row gets "Project Funding".  The code hands find_needle the
\* lower-cased comment (line 102), and the example row gets "project funding".
C3_OriginalCasing ==
    \A phrase_type \in PhraseTypes :
        HasList(phrase_type) =>
            \A r \in 1..NRows(df) :
                /\ \A n \in 1..Len(ListOf(phrase_type)[r]) :
                      OccursIn(ListOf(phrase_type)[r][n], Column(df, str_Q3_x_edit)[r])
                /\ IsExampleRow(phrase_type, r) =>
                      ListOf(phrase_type)[r] = << <<80,114,111,106,101,99,116,32,70,117,110,100,105,110,103>> >>

\* C4: a NaN in the mention column raises no error; the call runs to its end,
\* the NaN row gets an empty list and an empty display string and every row
\* gets its list and display string.
C4_NaNTolerated ==
    /\ pc # "raised"
    /\ \A phrase_type \in PhraseTypes :
          (pc = "returned" /\ HasColumn(df, ThemeColumn(phrase_type))) =>
              /\ HasList(phrase_type)
              /\ HasColumn(df, phrase_type)
              /\ \A r \in 1..NRows(df) :
                    IsFloat(Column(df, ThemeColumn(phrase_type))[r]) =>
                        /\ ListOf(phrase_type)[r] = <<>>
                        /\ Column(df, phrase_type)[r] = <<>>

\* The non-None values of a sequence of find_needle results, in order.
RECURSIVE Present(_)
Present(dicts) ==
    IF dicts = <<>> THEN <<>>
    ELSE (IF dicts[1][1][2] = <<-1>> THEN <<>> ELSE <<dicts[1][1][2]>>)
         \o Present(Tail(dicts))

\* Where item n of the joined string starts, less one.
RECURSIVE JoinOffset(_, _)
JoinOffset(x, n) ==
    IF n <= 1 THEN 0 ELSE JoinOffset(x, n - 1) + Len(x[n - 1]) + 2

\* text is the items of x separated by a comma and a blank.
IsJoined(text, x) ==
    /\ Len(text) = IF x = <<>> THEN 0 ELSE JoinOffset(x, Len(x)) + Len(x[Len(x)])
    /\ \A n \in 1..Len(x) :
          /\ SubSeq(text, JoinOffset(x, n) + 1, JoinOffset(x, n) + Len(x[n])) = x[n]
          /\ n < Len(x) =>
                SubSeq(text, JoinOffset(x, n) + Len(x[n]) + 1,
                       JoinOffset(x, n) + Len(x[n]) + 2) = <<44, 32>>

\* C9: the _dict column holds one find_needle result per mention of the row,
\* keyed by the mention's phrase; the _list column holds exactly the values
\* of these results that are not None, in mention order, and never None; the
\* display column is the list joined with ", ".
C9_AbsentFiltered ==
    \A phrase_type \in PhraseTypes :
        /\ HasList(phrase_type) =>
              \A r \in 1..NRows(df) :
                  LET dicts == DictOf(phrase_type)[r].v
                      mentions == Column(df, ThemeColumn(phrase_type))[r].v
                      list == ListOf(phrase_type)[r]
                  IN  /\ Len(dicts) = Len(mentions)
                      /\ \A m \in 1..Len(dicts) :
                            /\ Len(dicts[m]) = 1
                            /\ dicts[m][1][1] = mentions[m][2]
                      /\ list = Present(dicts)
                      /\ \A n \in 1..Len(list) : list[n] # <<-1>>
        /\ (HasList(phrase_type) /\ HasColumn(df, phrase_type)) =>
              \A r \in 1..NRows(df) :
                  IsJoined(Column(df, phrase_type)[r], ListOf(phrase_type)[r])

\* The call is over for a frame with a row of three mentions of which one is
\* not found and two are.
C9_Witness ==
    /\ pc = "returned"
    /\ \E phrase_type \in PhraseTypes :
          /\ HasList(phrase_type)
          /\ \E r \in 1..NRows(df) :
                /\ Len(DictOf(phrase_type)[r].v) = 3
                /\ DictOf(phrase_type)[r].v[1][1][2] = <<-1>>
                /\ Len(ListOf(phrase_type)[r]) = 2

====
